---- MODULE Spec2Model ----
(***************************************************************************)
(* A model of SystemTestsCompareTwo                                        *)
(* (utils/python/CIME/SystemTests/system_tests_compare_two.py): the base   *)
(* class of CIME system tests that build once or twice, do two runs and    *)
(* compare their output.                                                   *)
(*                                                                         *)
(* One instance is modelled.  Python strings are sequences of one-         *)
(* character strings, so that rstrip() is computed and not assumed.  Every *)
(* public method is one action; the calls it makes on hooks and on the     *)
(* collaborators of the base class are recorded, in order, in log, the way *)
(* the unit tests' SystemTestsCompareTwoFake records them.                 *)
(***************************************************************************)
EXTENDS Integers, Sequences, FiniteSets

VARIABLES
    inst,                            \* "none" | "ok" | "error": outcome of __init__
    run_two_suffix_arg,              \* the run_two_suffix argument given to __init__
    two_builds_for_sharedlib,        \* self._two_builds_for_sharedlib
    two_builds_for_model,            \* self._two_builds_for_model
    runs_have_different_pe_settings, \* self._runs_have_different_pe_settings
    run_one_suffix,                  \* self._run_one_suffix
    run_two_suffix,                  \* self._run_two_suffix
    status_run1,                     \* self._status_run1
    status_run2,                     \* self._status_run2
    status_compare,                  \* self._status_compare
    hooks,                           \* the optional hooks the concrete test overrides
    snaps,                           \* saved xml files in the case directory: <<xml_file, suffix>>
    env_mach_pes,                    \* the PE layout: of the case object, on disk, and saved
    pc,                              \* where a run() made step by step stands
    op,                              \* the most recent call: its name and arguments
    ret,                             \* what that call returned or raised
    log,                             \* the calls that call made, in order
    nrun,                            \* number of run() calls made so far
    adjusted                         \* the _adjust_pes_for_run_* hooks that have run so far

vars == <<inst, run_two_suffix_arg, two_builds_for_sharedlib, two_builds_for_model,
          runs_have_different_pe_settings, run_one_suffix, run_two_suffix,
          status_run1, status_run2, status_compare, hooks, snaps, op, ret, log, nrun,
          adjusted, env_mach_pes, pc>>

(***************************************************************************)
(* Bounds of the model.                                                    *)
(***************************************************************************)
\* longest run of trailing whitespace appended to a run_two_suffix argument
MaxPad == 2
\* run() calls made on one instance
MaxRuns == 2
\* an interrupted build() is killed after at most this many of its calls
MaxKill == 9

(***************************************************************************)
(* Strings.                                                                *)
(***************************************************************************)
BASE == <<"b", "a", "s", "e">>
TEST == <<"t", "e", "s", "t">>
ORIGINAL_SUFFIX == <<"o", "r", "i", "g", "i", "n", "a", "l">>

\* the characters str.rstrip() removes (vertical tab has no TLA+ escape and is left out)
Whitespace == {" ", "\t", "\n", "\r", "\f"}

\* str.rstrip(): the string without its trailing whitespace
RECURSIVE rstrip(_)
rstrip(s) ==
    IF s = <<>> THEN s
    ELSE IF s[Len(s)] \in Whitespace THEN rstrip(SubSeq(s, 1, Len(s) - 1))
    ELSE s

\* run_two_suffix arguments tried: a core string followed by up to MaxPad blanks or tabs
Cores == {<<>>, BASE, ORIGINAL_SUFFIX, TEST, <<" ">> \o BASE}
Pads == UNION {[1..n -> {" ", "\t"}] : n \in 0..MaxPad}
SuffixArgs == {c \o p : c \in Cores, p \in Pads}

OptionalHooks == {"_adjust_pes_for_run_one", "_adjust_pes_for_run_two",
                  "_build_one_setup", "_build_two_setup"}

\* concrete tests tried: one that overrides every optional hook, and those that lack one
HookSets == {OptionalHooks} \cup {OptionalHooks \ {h} : h \in OptionalHooks}

(***************************************************************************)
(* __init__                                                                *)
(***************************************************************************)
\* the three expect() checks of __init__: the first that fails, or "None"
SuffixChecks_no_original_check(one, two) ==
    IF two = one THEN "ERROR: Must have different suffixes for run one and run two"
    ELSE "None"

SuffixChecks(one, two) ==
    IF two = one THEN "ERROR: Must have different suffixes for run one and run two"
    ELSE IF one = ORIGINAL_SUFFIX THEN "ERROR: Run one suffix cannot be 'original'"
    ELSE IF two = ORIGINAL_SUFFIX THEN "ERROR: Run two suffix cannot be 'original'"
    ELSE "None"

\* the suffix stored for run two: run_two_suffix.rstrip()
stored_run_two_suffix_strip(run_two_suffix_) ==
    LET RECURSIVE lstrip(_)
        lstrip(s) == IF s # <<>> /\ s[1] \in Whitespace THEN lstrip(Tail(s)) ELSE s
    IN lstrip(rstrip(run_two_suffix_))

stored_run_two_suffix(run_two_suffix_) == rstrip(run_two_suffix_)

NoCall == [name |-> "none", sharedlib_only |-> FALSE, model_only |-> FALSE]

Init ==
    /\ inst = "none"
    /\ run_two_suffix_arg = <<>>
    /\ two_builds_for_sharedlib = FALSE
    /\ two_builds_for_model = FALSE
    /\ runs_have_different_pe_settings = FALSE
    /\ run_one_suffix = <<>>
    /\ run_two_suffix = <<>>
    /\ status_run1 = "NOT RUN"
    /\ status_run2 = "NOT RUN"
    /\ status_compare = "NOT RUN"
    /\ hooks = {}
    /\ snaps = {}
    /\ op = NoCall
    /\ ret = "None"
    /\ log = <<>>
    /\ nrun = 0
    /\ adjusted = {}
    /\ env_mach_pes = [case |-> <<>>, disk |-> <<>>, saved |-> {}]
    /\ pc = "Idle"

\* SystemTestsCompareTwo.__init__, called by the __init__ of a concrete test that
\* overrides the optional hooks in overridden
Construct(sharedlib, model, different_pes, run_two_suffix_, overridden) ==
    /\ inst = "none"
    /\ LET one == BASE
           two == stored_run_two_suffix(run_two_suffix_)
           err == SuffixChecks(one, two)
       IN /\ run_two_suffix_arg' = run_two_suffix_
          /\ op' = [NoCall EXCEPT !.name = "__init__"]
          /\ ret' = err
          /\ log' = <<>>
          /\ IF err = "None"
             THEN /\ inst' = "ok"
                  /\ two_builds_for_sharedlib' = sharedlib
                  /\ two_builds_for_model' = model
                  /\ runs_have_different_pe_settings' = different_pes
                  /\ run_one_suffix' = one
                  /\ run_two_suffix' = two
                  /\ hooks' = overridden
             ELSE /\ inst' = "error"
                  /\ UNCHANGED <<two_builds_for_sharedlib, two_builds_for_model,
                                 runs_have_different_pe_settings, run_one_suffix,
                                 run_two_suffix, hooks>>
          /\ status_run1' = "NOT RUN"
          /\ status_run2' = "NOT RUN"
          /\ status_compare' = "NOT RUN"
          /\ UNCHANGED <<snaps, nrun, adjusted, env_mach_pes, pc>>

(***************************************************************************)
(* Recorded calls.  One entry per call, as Call(method, arguments) of the  *)
(* unit tests, with the value the call returned; an argument a method does *)
(* not take keeps its default here.                                        *)
(***************************************************************************)
Call(method) ==
    [method |-> method, suffix |-> <<>>, suffix2 |-> <<>>, modified_pes |-> FALSE,
     sharedlib_only |-> FALSE, model_only |-> FALSE, xml_file |-> "", ret |-> "None"]

PyBool(b) == IF b THEN "True" ELSE "False"

(***************************************************************************)
(* run()                                                                   *)
(***************************************************************************)
\* _has_two_executables that forgets two_builds_for_model
_has_two_executables_sharedlib_only ==
    IF two_builds_for_sharedlib THEN TRUE ELSE FALSE

\* _has_two_executables that asks for both flags
_has_two_executables_both ==
    IF two_builds_for_sharedlib /\ two_builds_for_model THEN TRUE ELSE FALSE

AdjustHooks == {"_adjust_pes_for_run_one", "_adjust_pes_for_run_two"}

(***************************************************************************)
(* The PE layout.  A layout is the sequence of _adjust_pes_for_run_* hooks *)
(* applied, in order, to the layout the case had when it was created: the  *)
(* hooks are code of the concrete test, so nothing more is known of what   *)
(* they do.  case is the layout of the case object, disk the one of        *)
(* env_mach_pes.xml in the case directory, saved the copies of that file,  *)
(* as <<suffix, layout>>.                                                  *)
(***************************************************************************)
HasSavedPes(pes, suffix) == \E f \in pes.saved : f[1] = suffix

SavedPes(pes, suffix) == (CHOOSE f \in pes.saved : f[1] = suffix)[2]

SavePes(pes, suffix) ==
    [pes EXCEPT !.saved = {f \in @ : f[1] # suffix} \cup {<<suffix, pes.disk>>}]

\* what a call does to the PE layout
PesEffect(pes, call) ==
    IF call.method \in AdjustHooks /\ call.ret # "raise"
    THEN [pes EXCEPT !.case = Append(@, call.method)]
    ELSE IF call.method = "flush"
    THEN [pes EXCEPT !.disk = pes.case]
    ELSE IF call.method \in {"read_xml", "_load_staged_xml_files"}
    THEN [pes EXCEPT !.case = pes.disk]
    ELSE IF call.method = "save_xml_file" /\ call.xml_file = "env_mach_pes"
    THEN SavePes(pes, call.suffix)
    ELSE IF call.method = "restore_or_save_xml_file" /\ call.xml_file = "env_mach_pes"
    THEN IF call.ret = "True"
         THEN [pes EXCEPT !.disk = SavedPes(pes, call.suffix)]
         ELSE SavePes(pes, call.suffix)
    ELSE IF call.method = "_stage_saved_pes_file" /\ HasSavedPes(pes, call.suffix)
    THEN [pes EXCEPT !.disk = SavedPes(pes, call.suffix)]
    ELSE pes

RECURSIVE AfterCalls(_, _)
\* the PE layout after calls
AfterCalls(pes, calls) ==
    IF calls = <<>> THEN pes
    ELSE AfterCalls(PesEffect(pes, Head(calls)), Tail(calls))

\* two_executables of _has_two_executables
_has_two_executables ==
    IF two_builds_for_sharedlib \/ two_builds_for_model THEN TRUE ELSE FALSE

\* "if success: status = PASS  else: status = FAIL; return False", which follows
\* each of the two _run calls and the _component_compare_test call
status_and_return_never_returns(success) ==
    [status |-> IF success THEN "PASS" ELSE "FAIL", returns |-> FALSE]

status_and_return_returns_on_success(success) ==
    [status |-> IF success THEN "PASS" ELSE "FAIL", returns |-> success]

status_and_return_fail_is_not_run(success) ==
    [status |-> IF success THEN "PASS" ELSE "NOT RUN", returns |-> ~success]

status_and_return(success) ==
    [status |-> IF success THEN "PASS" ELSE "FAIL", returns |-> ~success]

\* a phase of run() that reloads the xml files whether or not anything was staged
run_phase_always_reloads(setup, suffix, success) ==
    <<Call("_run_common_setup"), Call(setup)>>
    \o (IF runs_have_different_pe_settings
        THEN <<[Call("_stage_saved_pes_file") EXCEPT !.suffix = suffix]>>
        ELSE <<>>)
    \o (IF _has_two_executables
        THEN <<[Call("_stage_saved_build_files") EXCEPT !.suffix = suffix]>>
        ELSE <<>>)
    \o <<[Call("_load_staged_xml_files")
             EXCEPT !.modified_pes = runs_have_different_pe_settings]>>
    \o <<[Call("_run") EXCEPT !.suffix = suffix, !.ret = PyBool(success)]>>

\* a phase of run() that reloads with modified_pes = False even after staging PE files
run_phase_reload_without_modified_pes(setup, suffix, success) ==
    <<Call("_run_common_setup"), Call(setup)>>
    \o (IF runs_have_different_pe_settings
        THEN <<[Call("_stage_saved_pes_file") EXCEPT !.suffix = suffix]>>
        ELSE <<>>)
    \o (IF _has_two_executables
        THEN <<[Call("_stage_saved_build_files") EXCEPT !.suffix = suffix]>>
        ELSE <<>>)
    \o (IF runs_have_different_pe_settings \/ _has_two_executables
        THEN <<Call("_load_staged_xml_files")>>
        ELSE <<>>)
    \o <<[Call("_run") EXCEPT !.suffix = suffix, !.ret = PyBool(success)]>>

\* a phase of run() that calls the phase's setup before the common setup
run_phase_common_setup_last(setup, suffix, success) ==
    <<Call(setup), Call("_run_common_setup")>>
    \o (IF runs_have_different_pe_settings
        THEN <<[Call("_stage_saved_pes_file") EXCEPT !.suffix = suffix]>>
        ELSE <<>>)
    \o (IF _has_two_executables
        THEN <<[Call("_stage_saved_build_files") EXCEPT !.suffix = suffix]>>
        ELSE <<>>)
    \o (IF runs_have_different_pe_settings \/ _has_two_executables
        THEN <<[Call("_load_staged_xml_files")
                   EXCEPT !.modified_pes = runs_have_different_pe_settings]>>
        ELSE <<>>)
    \o <<[Call("_run") EXCEPT !.suffix = suffix, !.ret = PyBool(success)]>>

\* a phase of run() that stages the build files of run one whatever the phase
run_phase_stages_build_files_of_run_one(setup, suffix, success) ==
    <<Call("_run_common_setup"), Call(setup)>>
    \o (IF runs_have_different_pe_settings
        THEN <<[Call("_stage_saved_pes_file") EXCEPT !.suffix = suffix]>>
        ELSE <<>>)
    \o (IF _has_two_executables
        THEN <<[Call("_stage_saved_build_files") EXCEPT !.suffix = BASE]>>
        ELSE <<>>)
    \o (IF runs_have_different_pe_settings \/ _has_two_executables
        THEN <<[Call("_load_staged_xml_files")
                   EXCEPT !.modified_pes = runs_have_different_pe_settings]>>
        ELSE <<>>)
    \o <<[Call("_run") EXCEPT !.suffix = suffix, !.ret = PyBool(success)]>>

\* the calls of one phase of run(): common setup, the phase's setup, staging,
\* reload, then _run(suffix), which returns success
run_phase(setup, suffix, success) ==
    <<Call("_run_common_setup"), Call(setup)>>
    \o (IF runs_have_different_pe_settings
        THEN <<[Call("_stage_saved_pes_file") EXCEPT !.suffix = suffix]>>
        ELSE <<>>)
    \o (IF _has_two_executables
        THEN <<[Call("_stage_saved_build_files") EXCEPT !.suffix = suffix]>>
        ELSE <<>>)
    \o (IF runs_have_different_pe_settings \/ _has_two_executables
        THEN <<[Call("_load_staged_xml_files")
                   EXCEPT !.modified_pes = runs_have_different_pe_settings]>>
        ELSE <<>>)
    \o <<[Call("_run") EXCEPT !.suffix = suffix, !.ret = PyBool(success)]>>

\* run(), given what _run returns for run one and for run two and what
\* _component_compare_test returns: the calls made, the statuses and the value returned
run_outcome(run_one_passes, run_two_passes, compare_passes) ==
    LET calls1 == run_phase("_run_one_setup", run_one_suffix, run_one_passes)
        r1 == status_and_return(run_one_passes)
        calls2 == calls1 \o run_phase("_run_two_setup", run_two_suffix, run_two_passes)
        r2 == status_and_return(run_two_passes)
        calls3 == Append(calls2,
                         [Call("_component_compare_test")
                             EXCEPT !.suffix = run_one_suffix, !.suffix2 = run_two_suffix,
                                    !.ret = PyBool(compare_passes)])
        r3 == status_and_return(compare_passes)
    IN IF r1.returns
       THEN [log |-> calls1, status_run1 |-> r1.status, status_run2 |-> status_run2,
             status_compare |-> status_compare, ret |-> "False"]
       ELSE IF r2.returns
       THEN [log |-> calls2, status_run1 |-> r1.status, status_run2 |-> r2.status,
             status_compare |-> status_compare, ret |-> "False"]
       ELSE IF r3.returns
       THEN [log |-> calls3, status_run1 |-> r1.status, status_run2 |-> r2.status,
             status_compare |-> r3.status, ret |-> "False"]
       ELSE [log |-> calls3, status_run1 |-> r1.status, status_run2 |-> r2.status,
             status_compare |-> r3.status, ret |-> PyBool(compare_passes)]

run(run_one_passes, run_two_passes, compare_passes) ==
    /\ inst = "ok"
    /\ nrun < MaxRuns
    /\ LET out == run_outcome(run_one_passes, run_two_passes, compare_passes)
       IN /\ log' = out.log
          /\ status_run1' = out.status_run1
          /\ status_run2' = out.status_run2
          /\ status_compare' = out.status_compare
          /\ ret' = out.ret
          /\ env_mach_pes' = AfterCalls(env_mach_pes, out.log)
    /\ op' = [NoCall EXCEPT !.name = "run"]
    /\ nrun' = nrun + 1
    /\ UNCHANGED <<inst, run_two_suffix_arg, two_builds_for_sharedlib, two_builds_for_model,
                   runs_have_different_pe_settings, run_one_suffix, run_two_suffix,
                   hooks, snaps, adjusted, pc>>

(***************************************************************************)
(* run() made step by step: the setup of a phase (hooks, staging, reload), *)
(* its _run, the comparison.  pc is the step to be made next; "Idle" before *)
(* the first run() and "Done" once run() has returned.                     *)
(***************************************************************************)
Phases == {"one", "two"}

SetupStep(phase) == IF phase = "one" THEN "Run1Setup" ELSE "Run2Setup"

ExecStep(phase) == IF phase = "one" THEN "Run1Exec" ELSE "Run2Exec"

\* the step that follows the _run of phase if it passed
StepAfter(phase) == IF phase = "one" THEN "Run2Setup" ELSE "Compare"

SetupHook(phase) == IF phase = "one" THEN "_run_one_setup" ELSE "_run_two_setup"

Suffix(phase) == IF phase = "one" THEN run_one_suffix ELSE run_two_suffix

\* what no step of run() changes
RunFrame ==
    UNCHANGED <<inst, run_two_suffix_arg, two_builds_for_sharedlib, two_builds_for_model,
                runs_have_different_pe_settings, run_one_suffix, run_two_suffix,
                hooks, snaps, adjusted>>

\* run() is called
run_begin ==
    /\ inst = "ok"
    /\ pc \in {"Idle", "Done"}
    /\ nrun < MaxRuns
    /\ pc' = "Run1Setup"
    /\ log' = <<>>
    /\ op' = [NoCall EXCEPT !.name = "run"]
    /\ ret' = "running"
    /\ nrun' = nrun + 1
    /\ RunFrame
    /\ UNCHANGED <<status_run1, status_run2, status_compare, env_mach_pes>>

\* the steps of a phase that come before its _run
run_setup(phase) ==
    /\ pc = SetupStep(phase)
    /\ LET calls == run_phase(SetupHook(phase), Suffix(phase), TRUE)
           setup == SubSeq(calls, 1, Len(calls) - 1)
       IN /\ log' = log \o setup
          /\ env_mach_pes' = AfterCalls(env_mach_pes, setup)
    /\ pc' = ExecStep(phase)
    /\ RunFrame
    /\ UNCHANGED <<status_run1, status_run2, status_compare, op, ret, nrun>>

\* a _run that sends run() back to the setup of its phase when it fails
run_exec_retries(phase, success) ==
    /\ pc = ExecStep(phase)
    /\ LET calls == run_phase(SetupHook(phase), Suffix(phase), success)
           r == status_and_return(success)
       IN /\ log' = Append(log, calls[Len(calls)])
          /\ IF phase = "one"
             THEN status_run1' = r.status /\ UNCHANGED status_run2
             ELSE status_run2' = r.status /\ UNCHANGED status_run1
          /\ IF r.returns
             THEN pc' = SetupStep(phase) /\ UNCHANGED ret
             ELSE pc' = StepAfter(phase) /\ UNCHANGED ret
    /\ RunFrame
    /\ UNCHANGED <<status_compare, op, nrun, env_mach_pes>>

\* the _run of a phase and the assignment of its status
run_exec(phase, success) ==
    /\ pc = ExecStep(phase)
    /\ LET calls == run_phase(SetupHook(phase), Suffix(phase), success)
           r == status_and_return(success)
       IN /\ log' = Append(log, calls[Len(calls)])
          /\ IF phase = "one"
             THEN status_run1' = r.status /\ UNCHANGED status_run2
             ELSE status_run2' = r.status /\ UNCHANGED status_run1
          /\ IF r.returns
             THEN pc' = "Done" /\ ret' = "False"
             ELSE pc' = StepAfter(phase) /\ UNCHANGED ret
    /\ RunFrame
    /\ UNCHANGED <<status_compare, op, nrun, env_mach_pes>>

\* the comparison, the assignment of its status and the return of run()
run_compare(success) ==
    /\ pc = "Compare"
    /\ LET r == status_and_return(success)
       IN /\ log' = Append(log, [Call("_component_compare_test")
                                    EXCEPT !.suffix = run_one_suffix,
                                           !.suffix2 = run_two_suffix,
                                           !.ret = PyBool(success)])
          /\ status_compare' = r.status
          /\ ret' = IF r.returns THEN "False" ELSE PyBool(success)
    /\ pc' = "Done"
    /\ RunFrame
    /\ UNCHANGED <<status_run1, status_run2, op, nrun, env_mach_pes>>

\* the steps of a run() that has begun
run_steps ==
    \/ \E phase \in Phases : run_setup(phase)
    \/ \E phase \in Phases, success \in BOOLEAN : run_exec(phase, success)
    \/ \E success \in BOOLEAN : run_compare(success)

(***************************************************************************)
(* The status accessors.                                                   *)
(***************************************************************************)
accessor(name, value) ==
    /\ inst = "ok"
    /\ op' = [NoCall EXCEPT !.name = name]
    /\ ret' = value
    /\ log' = <<>>
    /\ UNCHANGED <<inst, run_two_suffix_arg, two_builds_for_sharedlib, two_builds_for_model,
                   runs_have_different_pe_settings, run_one_suffix, run_two_suffix,
                   status_run1, status_run2, status_compare, hooks, snaps, nrun,
                   adjusted, env_mach_pes, pc>>

get_run_one_status == accessor("get_run_one_status", status_run1)

\* get_run_two_status that returns the status of run one
get_run_two_status_of_run_one == accessor("get_run_two_status", status_run1)

get_run_two_status == accessor("get_run_two_status", status_run2)

get_compare_status == accessor("get_compare_status", status_compare)

(***************************************************************************)
(* build()                                                                 *)
(*                                                                         *)
(* A build() call is followed through a record m: the calls made so far    *)
(* (log), the saved xml files (snaps), the value the last call returned    *)
(* (rv) and the exception raised, if any (exc).  Once an exception is      *)
(* raised, nothing further of the call happens.  A build() whose process   *)
(* is killed (the job runs out of time, the user interrupts it) makes a    *)
(* number of its calls, fuel, and stops before the next one; fuel is       *)
(* negative in a call that is not killed.                                  *)
(***************************************************************************)
Begin ==
    [log |-> <<>>, snaps |-> snaps, rv |-> FALSE, exc |-> "None", fuel |-> -1,
     pes |-> env_mach_pes]

\* a build() that is killed once it has made calls_before_kill calls
BeginKilledAfter(calls_before_kill) == [Begin EXCEPT !.fuel = calls_before_kill]

\* Emit that goes on making calls after an exception was raised
Emit_after_exception(m, call) ==
    IF m.fuel = 0 THEN [m EXCEPT !.exc = "killed"]
    ELSE [m EXCEPT !.log = Append(@, call), !.fuel = IF @ > 0 THEN @ - 1 ELSE @,
                   !.pes = PesEffect(@, call)]

Emit(m, call) ==
    IF m.exc # "None" THEN m
    ELSE IF m.fuel = 0 THEN [m EXCEPT !.exc = "killed"]
    ELSE [m EXCEPT !.log = Append(@, call), !.fuel = IF @ > 0 THEN @ - 1 ELSE @,
                   !.pes = PesEffect(@, call)]

Raise(m, exception) ==
    IF m.exc # "None" THEN m ELSE [m EXCEPT !.exc = exception]

\* a hook whose base-class body returns
Hook_that_returns(m, name) == Emit(m, Call(name))

\* a hook whose base-class body is "raise NotImplementedError"
Hook(m, name) ==
    IF name \in hooks THEN Emit(m, Call(name))
    ELSE Raise(Emit(m, [Call(name) EXCEPT !.ret = "raise"]), "NotImplementedError")

\* saved_xml_file_exists(caseroot, xml_file, suffix)
saved_xml_file_exists(m, xml_file, suffix) == <<xml_file, suffix>> \in m.snaps

\* save_xml_file(caseroot, xml_file, suffix)
save_xml_file(m, xml_file, suffix) ==
    LET called == Emit(m, [Call("save_xml_file")
                              EXCEPT !.xml_file = xml_file, !.suffix = suffix])
    IN IF called.exc # "None" THEN called
       ELSE [called EXCEPT !.snaps = @ \cup {<<xml_file, suffix>>}]

\* restore_or_save_xml_file(caseroot, xml_file, suffix): restores the saved file and
\* returns True if there is one, else saves the current file and returns False
restore_or_save_xml_file(m, xml_file, suffix) ==
    LET restored == saved_xml_file_exists(m, xml_file, suffix)
        called == Emit(m, [Call("restore_or_save_xml_file")
                              EXCEPT !.xml_file = xml_file, !.suffix = suffix,
                                     !.ret = PyBool(restored)])
    IN IF called.exc # "None" THEN called
       ELSE [called EXCEPT !.snaps = @ \cup {<<xml_file, suffix>>}, !.rv = restored]

\* self._save_build_files(suffix)
_save_build_files(m, suffix) ==
    LET called == Emit(m, [Call("_save_build_files") EXCEPT !.suffix = suffix])
    IN IF called.exc # "None" THEN called
       ELSE [called EXCEPT !.snaps = @ \cup {<<"env_build", suffix>>}]

_stage_saved_pes_file(m, suffix) ==
    Emit(m, [Call("_stage_saved_pes_file") EXCEPT !.suffix = suffix])

_load_staged_xml_files(m, modified_pes) ==
    Emit(m, [Call("_load_staged_xml_files") EXCEPT !.modified_pes = modified_pes])

\* SystemTestsCommon.build(self, sharedlib_only, model_only); a failed build raises
SystemTestsCommon_build(m, sharedlib_only, model_only, succeeds) ==
    LET call == [Call("SystemTestsCommon.build")
                    EXCEPT !.sharedlib_only = sharedlib_only, !.model_only = model_only]
    IN IF succeeds THEN Emit(m, call)
       ELSE Raise(Emit(m, [call EXCEPT !.ret = "raise"]), "BuildError")

\* _needs_two_builds: the value returned (val) or the exception raised (exc)
_needs_two_builds_swapped(sharedlib_only, model_only) ==
    IF ~sharedlib_only /\ ~model_only
    THEN [exc |-> "None", val |-> two_builds_for_sharedlib \/ two_builds_for_model]
    ELSE IF sharedlib_only
    THEN [exc |-> "None", val |-> two_builds_for_model]
    ELSE IF model_only
    THEN [exc |-> "None", val |-> two_builds_for_sharedlib]
    ELSE [exc |-> "ValueError", val |-> FALSE]

_needs_two_builds(sharedlib_only, model_only) ==
    IF ~sharedlib_only /\ ~model_only
    THEN [exc |-> "None", val |-> two_builds_for_sharedlib \/ two_builds_for_model]
    ELSE IF sharedlib_only
    THEN [exc |-> "None", val |-> two_builds_for_sharedlib]
    ELSE IF model_only
    THEN [exc |-> "None", val |-> two_builds_for_model]
    ELSE [exc |-> "ValueError", val |-> FALSE]

\* the restore step that reads the xml files only if env_mach_pes was restored
_pre_build_restore_or_save_xml_files_reads_for_pes_only(m) ==
    LET m1 == IF runs_have_different_pe_settings
              THEN restore_or_save_xml_file(m, "env_mach_pes", ORIGINAL_SUFFIX)
              ELSE m
        env_mach_pes_restored == IF runs_have_different_pe_settings THEN m1.rv ELSE FALSE
        m2 == IF _has_two_executables
              THEN restore_or_save_xml_file(m1, "env_build", ORIGINAL_SUFFIX)
              ELSE m1
    IN IF env_mach_pes_restored
       THEN Emit(m2, Call("read_xml"))
       ELSE m2

_pre_build_restore_or_save_xml_files(m) ==
    LET m1 == IF runs_have_different_pe_settings
              THEN restore_or_save_xml_file(m, "env_mach_pes", ORIGINAL_SUFFIX)
              ELSE m
        env_mach_pes_restored == IF runs_have_different_pe_settings THEN m1.rv ELSE FALSE
        m2 == IF _has_two_executables
              THEN restore_or_save_xml_file(m1, "env_build", ORIGINAL_SUFFIX)
              ELSE m1
        env_build_restored == IF _has_two_executables THEN m2.rv ELSE FALSE
    IN IF env_mach_pes_restored \/ env_build_restored
       THEN Emit(m2, Call("read_xml"))
       ELSE m2

\* _create_pe_files without the check that run one's file is not saved yet
_create_pe_files_no_check_for_run_one(m) ==
    LET m1 == save_xml_file(Emit(Hook(m, "_adjust_pes_for_run_one"), Call("flush")),
                            "env_mach_pes", run_one_suffix)
    IN IF ~saved_xml_file_exists(m1, "env_mach_pes", run_two_suffix)
       THEN save_xml_file(Emit(Hook(m1, "_adjust_pes_for_run_two"), Call("flush")),
                          "env_mach_pes", run_two_suffix)
       ELSE m1

_create_pe_files(m) ==
    LET m1 == IF ~saved_xml_file_exists(m, "env_mach_pes", run_one_suffix)
              THEN save_xml_file(Emit(Hook(m, "_adjust_pes_for_run_one"), Call("flush")),
                                 "env_mach_pes", run_one_suffix)
              ELSE m
    IN IF ~saved_xml_file_exists(m1, "env_mach_pes", run_two_suffix)
       THEN save_xml_file(Emit(Hook(m1, "_adjust_pes_for_run_two"), Call("flush")),
                          "env_mach_pes", run_two_suffix)
       ELSE m1

\* _do_two_builds that stages the PE file of run two without reloading the xml files
_do_two_builds_no_reload_for_build_two(m, sharedlib_only, model_only, build_one_succeeds, build_two_succeeds) ==
    LET \* First build
        m1 == IF runs_have_different_pe_settings
              THEN _load_staged_xml_files(_stage_saved_pes_file(m, run_one_suffix), TRUE)
              ELSE m
        m2 == Hook(m1, "_build_one_setup")
        m3 == SystemTestsCommon_build(m2, sharedlib_only, model_only, build_one_succeeds)
        m4 == _save_build_files(m3, run_one_suffix)
        \* Second build
        m5 == IF runs_have_different_pe_settings
              THEN _stage_saved_pes_file(m4, run_two_suffix)
              ELSE m4
        m6 == Hook(m5, "_build_two_setup")
        m7 == SystemTestsCommon_build(m6, sharedlib_only, model_only, build_two_succeeds)
    IN _save_build_files(m7, run_two_suffix)

\* _do_two_builds that saves the build files of both runs after the second build
_do_two_builds_saves_after_both_builds(m, sharedlib_only, model_only, build_one_succeeds, build_two_succeeds) ==
    LET \* First build
        m1 == IF runs_have_different_pe_settings
              THEN _load_staged_xml_files(_stage_saved_pes_file(m, run_one_suffix), TRUE)
              ELSE m
        m2 == Hook(m1, "_build_one_setup")
        m3 == SystemTestsCommon_build(m2, sharedlib_only, model_only, build_one_succeeds)
        m4 == m3
        \* Second build
        m5 == IF runs_have_different_pe_settings
              THEN _load_staged_xml_files(_stage_saved_pes_file(m4, run_two_suffix), TRUE)
              ELSE m4
        m6 == Hook(m5, "_build_two_setup")
        m7 == SystemTestsCommon_build(m6, sharedlib_only, model_only, build_two_succeeds)
    IN _save_build_files(_save_build_files(m7, run_one_suffix), run_two_suffix)

\* _do_two_builds that does not save the build files of run two
_do_two_builds_no_save_for_run_two(m, sharedlib_only, model_only, build_one_succeeds, build_two_succeeds) ==
    LET \* First build
        m1 == IF runs_have_different_pe_settings
              THEN _load_staged_xml_files(_stage_saved_pes_file(m, run_one_suffix), TRUE)
              ELSE m
        m2 == Hook(m1, "_build_one_setup")
        m3 == SystemTestsCommon_build(m2, sharedlib_only, model_only, build_one_succeeds)
        m4 == _save_build_files(m3, run_one_suffix)
        \* Second build
        m5 == IF runs_have_different_pe_settings
              THEN _load_staged_xml_files(_stage_saved_pes_file(m4, run_two_suffix), TRUE)
              ELSE m4
        m6 == Hook(m5, "_build_two_setup")
        m7 == SystemTestsCommon_build(m6, sharedlib_only, model_only, build_two_succeeds)
    IN m7

_do_two_builds(m, sharedlib_only, model_only, build_one_succeeds, build_two_succeeds) ==
    LET \* First build
        m1 == IF runs_have_different_pe_settings
              THEN _load_staged_xml_files(_stage_saved_pes_file(m, run_one_suffix), TRUE)
              ELSE m
        m2 == Hook(m1, "_build_one_setup")
        m3 == SystemTestsCommon_build(m2, sharedlib_only, model_only, build_one_succeeds)
        m4 == _save_build_files(m3, run_one_suffix)
        \* Second build
        m5 == IF runs_have_different_pe_settings
              THEN _load_staged_xml_files(_stage_saved_pes_file(m4, run_two_suffix), TRUE)
              ELSE m4
        m6 == Hook(m5, "_build_two_setup")
        m7 == SystemTestsCommon_build(m6, sharedlib_only, model_only, build_two_succeeds)
    IN _save_build_files(m7, run_two_suffix)

\* build() with _pre_build called first, before the PE files are created
build_from_pre_build_first(m0, sharedlib_only, model_only, build_one_succeeds, build_two_succeeds) ==
    LET m1 == Emit(_pre_build_restore_or_save_xml_files(m0), Call("_pre_build"))
        m3 == IF runs_have_different_pe_settings THEN _create_pe_files(m1) ELSE m1
        two_builds_needed == _needs_two_builds(sharedlib_only, model_only)
    IN IF m3.exc # "None" THEN m3
       ELSE IF two_builds_needed.exc # "None" THEN Raise(m3, two_builds_needed.exc)
       ELSE IF two_builds_needed.val
       THEN _do_two_builds(m3, sharedlib_only, model_only,
                           build_one_succeeds, build_two_succeeds)
       ELSE SystemTestsCommon_build(
                IF runs_have_different_pe_settings
                THEN _load_staged_xml_files(_stage_saved_pes_file(m3, run_one_suffix), TRUE)
                ELSE m3,
                sharedlib_only, model_only, build_one_succeeds)

\* build() whose single build uses the PE settings of run two
build_from_stages_run_two(m0, sharedlib_only, model_only, build_one_succeeds, build_two_succeeds) ==
    LET m1 == _pre_build_restore_or_save_xml_files(m0)
        m2 == IF runs_have_different_pe_settings THEN _create_pe_files(m1) ELSE m1
        m3 == Emit(m2, Call("_pre_build"))
        two_builds_needed == _needs_two_builds(sharedlib_only, model_only)
    IN IF m3.exc # "None" THEN m3
       ELSE IF two_builds_needed.exc # "None" THEN Raise(m3, two_builds_needed.exc)
       ELSE IF two_builds_needed.val
       THEN _do_two_builds(m3, sharedlib_only, model_only,
                           build_one_succeeds, build_two_succeeds)
       ELSE SystemTestsCommon_build(
                IF runs_have_different_pe_settings
                THEN _load_staged_xml_files(_stage_saved_pes_file(m3, run_two_suffix), TRUE)
                ELSE m3,
                sharedlib_only, model_only, build_one_succeeds)

\* build(sharedlib_only, model_only) from m0, given whether the first and the second
\* call of SystemTestsCommon.build succeed
build_from(m0, sharedlib_only, model_only, build_one_succeeds, build_two_succeeds) ==
    LET m1 == _pre_build_restore_or_save_xml_files(m0)
        m2 == IF runs_have_different_pe_settings THEN _create_pe_files(m1) ELSE m1
        m3 == Emit(m2, Call("_pre_build"))
        two_builds_needed == _needs_two_builds(sharedlib_only, model_only)
    IN IF m3.exc # "None" THEN m3
       ELSE IF two_builds_needed.exc # "None" THEN Raise(m3, two_builds_needed.exc)
       ELSE IF two_builds_needed.val
       THEN _do_two_builds(m3, sharedlib_only, model_only,
                           build_one_succeeds, build_two_succeeds)
       ELSE SystemTestsCommon_build(
                IF runs_have_different_pe_settings
                THEN _load_staged_xml_files(_stage_saved_pes_file(m3, run_one_suffix), TRUE)
                ELSE m3,
                sharedlib_only, model_only, build_one_succeeds)

\* a build() call that is not killed
build_outcome(sharedlib_only, model_only, build_one_succeeds, build_two_succeeds) ==
    build_from(Begin, sharedlib_only, model_only, build_one_succeeds, build_two_succeeds)

\* the _adjust_pes_for_run_* hooks that ran among calls
AdjustHooksRun(calls) ==
    {calls[i].method : i \in {j \in 1..Len(calls) : /\ calls[j].method \in AdjustHooks
                                                     /\ calls[j].ret # "raise"}}

\* the effect of a build() call that ended as m
build_ends(m, sharedlib_only, model_only) ==
    /\ log' = m.log
    /\ snaps' = m.snaps
    /\ ret' = m.exc
    /\ adjusted' = adjusted \cup AdjustHooksRun(m.log)
    /\ env_mach_pes' = IF m.exc = "killed" THEN [m.pes EXCEPT !.case = m.pes.disk] ELSE m.pes
    /\ op' = [name |-> "build", sharedlib_only |-> sharedlib_only, model_only |-> model_only]
    /\ UNCHANGED <<inst, run_two_suffix_arg, two_builds_for_sharedlib, two_builds_for_model,
                   runs_have_different_pe_settings, run_one_suffix, run_two_suffix,
                   status_run1, status_run2, status_compare, hooks, nrun, pc>>

build(sharedlib_only, model_only, build_one_succeeds, build_two_succeeds) ==
    /\ inst = "ok"
    /\ build_ends(build_outcome(sharedlib_only, model_only,
                                build_one_succeeds, build_two_succeeds),
                  sharedlib_only, model_only)

\* a build() call whose process is killed after calls_before_kill of its calls
build_interrupted(sharedlib_only, model_only, calls_before_kill) ==
    /\ inst = "ok"
    /\ LET m == build_from(BeginKilledAfter(calls_before_kill),
                           sharedlib_only, model_only, TRUE, TRUE)
       IN /\ m.exc = "killed"
          /\ build_ends(m, sharedlib_only, model_only)

(***************************************************************************)
(* The specification.                                                      *)
(***************************************************************************)
\* a test constructed with the default run_two_suffix, then built and run
Next ==
    \/ \E sharedlib \in BOOLEAN, model \in BOOLEAN, different_pes \in BOOLEAN,
          overridden \in HookSets :
          Construct(sharedlib, model, different_pes, TEST, overridden)
    \/ \E sharedlib_only \in BOOLEAN, model_only \in BOOLEAN,
          build_one_succeeds \in BOOLEAN, build_two_succeeds \in BOOLEAN :
          build(sharedlib_only, model_only, build_one_succeeds, build_two_succeeds)
    \/ \E run_one_passes \in BOOLEAN, run_two_passes \in BOOLEAN, compare_passes \in BOOLEAN :
          run(run_one_passes, run_two_passes, compare_passes)
    \/ get_run_one_status
    \/ get_run_two_status
    \/ get_compare_status

Spec == Init /\ [][Next]_vars

\* construction alone, over every run_two_suffix argument tried
NextInit ==
    \E sharedlib \in BOOLEAN, model \in BOOLEAN, different_pes \in BOOLEAN,
       run_two_suffix_ \in SuffixArgs, overridden \in HookSets :
       Construct(sharedlib, model, different_pes, run_two_suffix_, overridden)

SpecInit == Init /\ [][NextInit]_vars

\* a test with two PE layouts whose build() calls may be killed and made again
NextRestart ==
    \/ \E sharedlib \in BOOLEAN, model \in BOOLEAN, overridden \in HookSets :
          Construct(sharedlib, model, TRUE, TEST, overridden)
    \/ \E sharedlib_only \in BOOLEAN, model_only \in BOOLEAN,
          build_one_succeeds \in BOOLEAN, build_two_succeeds \in BOOLEAN :
          build(sharedlib_only, model_only, build_one_succeeds, build_two_succeeds)
    \/ \E sharedlib_only \in BOOLEAN, model_only \in BOOLEAN, calls_before_kill \in 0..MaxKill :
          build_interrupted(sharedlib_only, model_only, calls_before_kill)

SpecRestart == Init /\ [][NextRestart]_vars

\* a test whose run() calls are made step by step; every call that run() makes
\* returns, so a run() that has begun goes on
NextRun ==
    \/ \E sharedlib \in BOOLEAN, model \in BOOLEAN, different_pes \in BOOLEAN,
          overridden \in HookSets :
          Construct(sharedlib, model, different_pes, TEST, overridden)
    \/ run_begin
    \/ run_steps

SpecRun == Init /\ [][NextRun]_vars /\ WF_vars(run_steps)

(***************************************************************************)
(* What the most recent call did, read from log.                           *)
(***************************************************************************)
\* the positions of log that hold a call of method
CallsOf(method) == {i \in 1..Len(log) : log[i].method = method}

\* _run(suffix) was called
RunInvoked(suffix) == \E i \in CallsOf("_run") : log[i].suffix = suffix

\* _run(suffix) was called and returned result
RunReturned(suffix, result) ==
    \E i \in CallsOf("_run") : log[i].suffix = suffix /\ log[i].ret = result

CompareInvoked == CallsOf("_component_compare_test") # {}

CompareReturned(result) ==
    \E i \in CallsOf("_component_compare_test") : log[i].ret = result

Statuses == <<status_run1, status_run2, status_compare>>

\* the positions of log that hold a call of _adjust_pes_for_run_one or _run_two
AdjustHooks_Calls == {i \in 1..Len(log) : log[i].method \in AdjustHooks}

\* s is t followed by nothing but whitespace
IsPadded(s, t) ==
    \E k \in 0..Len(s) :
        /\ SubSeq(s, 1, k) = t
        /\ \A i \in (k + 1)..Len(s) : s[i] \in Whitespace

(***************************************************************************)
(* The claims.                                                             *)
(***************************************************************************)

\* C1: in a run() call, _run for phase two is invoked if and only if _run for phase
\* one returned success, and _component_compare_test is invoked if and only if both
\* _run calls returned success.
C1_PhaseTwoAndCompareGated ==
    op.name = "run" =>
        /\ RunInvoked(run_two_suffix) <=> RunReturned(run_one_suffix, "True")
        /\ CompareInvoked <=>
               (RunReturned(run_one_suffix, "True") /\ RunReturned(run_two_suffix, "True"))

\* a run() in which phase one passed and phase two failed, so that no comparison was made
C1_Witness ==
    /\ op.name = "run"
    /\ RunReturned(run_one_suffix, "True")
    /\ RunReturned(run_two_suffix, "False")
    /\ ~CompareInvoked

\* C2: once a _run call of run() returns failure, run() makes no further call: the
\* failed _run is the last call of that run().
C2_NothingAfterFailure ==
    op.name = "run" =>
        \A i \in CallsOf("_run") : log[i].ret = "False" => i = Len(log)

\* a run() of a test with two PE layouts and two executables whose phase one failed
C2_Witness ==
    /\ op.name = "run"
    /\ runs_have_different_pe_settings
    /\ _has_two_executables
    /\ RunReturned(run_one_suffix, "False")
    /\ Len(log) = 6

\* C3: the first run() on an instance ends with statuses and a return value fixed by
\* what the two _run calls and the comparison returned; it returns True if and only
\* if the three statuses are PASS.
C3_StatusesFollowOutcomes ==
    (nrun = 1 /\ op.name = "run") =>
        /\ RunReturned(run_one_suffix, "False") =>
               (Statuses = <<"FAIL", "NOT RUN", "NOT RUN">> /\ ret = "False")
        /\ (RunReturned(run_one_suffix, "True") /\ RunReturned(run_two_suffix, "False")) =>
               (Statuses = <<"PASS", "FAIL", "NOT RUN">> /\ ret = "False")
        /\ (RunReturned(run_one_suffix, "True") /\ RunReturned(run_two_suffix, "True")
               /\ CompareReturned("False")) =>
               (Statuses = <<"PASS", "PASS", "FAIL">> /\ ret = "False")
        /\ (RunReturned(run_one_suffix, "True") /\ RunReturned(run_two_suffix, "True")
               /\ CompareReturned("True")) =>
               (Statuses = <<"PASS", "PASS", "PASS">> /\ ret = "True")
        /\ ret = "True" <=> Statuses = <<"PASS", "PASS", "PASS">>
        /\ RunInvoked(run_one_suffix)

\* a first run() in which both phases passed and the comparison failed
C3_Witness ==
    /\ nrun = 1
    /\ op.name = "run"
    /\ CompareReturned("False")
    /\ Statuses = <<"PASS", "PASS", "FAIL">>

\* C4: a status that holds PASS or FAIL keeps that value in every later state.
\* (Violated: a second run() assigns the statuses again.)
C4_StatusAssignedOnce ==
    [][/\ status_run1 # "NOT RUN" => status_run1' = status_run1
       /\ status_run2 # "NOT RUN" => status_run2' = status_run2
       /\ status_compare # "NOT RUN" => status_compare' = status_compare]_vars

\* C5: in every reachable state the compare status differs from NOT RUN only if
\* the run-one status and the run-two status are both PASS.
\* (Violated: a second run() whose phase one fails leaves the statuses of the first.)
C5_CompareStatusGated ==
    status_compare # "NOT RUN" => (status_run1 = "PASS" /\ status_run2 = "PASS")

\* C6: __init__ fails whenever run_two_suffix, without its trailing whitespace, is
\* 'base' or 'original'; no instance has equal run suffixes or a run suffix 'original'.
C6_ReservedSuffixRejected ==
    /\ (op.name = "__init__"
           /\ (IsPadded(run_two_suffix_arg, BASE)
                  \/ IsPadded(run_two_suffix_arg, ORIGINAL_SUFFIX)))
       => (inst = "error" /\ ret # "None")
    /\ inst = "ok" =>
           /\ run_one_suffix # run_two_suffix
           /\ run_one_suffix # ORIGINAL_SUFFIX
           /\ run_two_suffix # ORIGINAL_SUFFIX

\* __init__ given 'original' followed by a tab has failed
C6_Witness ==
    /\ inst = "error"
    /\ run_two_suffix_arg = ORIGINAL_SUFFIX \o <<"\t">>

C8_SuffixesNonEmpty ==
    inst = "ok" => (run_one_suffix # <<>> /\ run_two_suffix # <<>>)

\* C9: a build() call with sharedlib_only and model_only both True that reaches the
\* choice between one build and two raises ValueError and makes no call of
\* SystemTestsCommon.build.
\* (Violated: the call takes the sharedlib_only branch of _needs_two_builds.)
C9_BothScopesRejected ==
    (op.name = "build" /\ op.sharedlib_only /\ op.model_only /\ CallsOf("_pre_build") # {})
    => (ret = "ValueError" /\ CallsOf("SystemTestsCommon.build") = {})

\* C10: a build() call with a valid scope that completes makes two calls of
\* SystemTestsCommon.build when two builds are needed for the scope, else one, each
\* with the scope arguments of the build() call.
C10_NumberOfBuilds ==
    (op.name = "build" /\ ret = "None" /\ ~(op.sharedlib_only /\ op.model_only)) =>
        /\ Cardinality(CallsOf("SystemTestsCommon.build")) =
               IF \/ (~op.sharedlib_only /\ ~op.model_only
                         /\ (two_builds_for_sharedlib \/ two_builds_for_model))
                  \/ (op.sharedlib_only /\ two_builds_for_sharedlib)
                  \/ (op.model_only /\ two_builds_for_model)
               THEN 2 ELSE 1
        /\ \A i \in CallsOf("SystemTestsCommon.build") :
               /\ log[i].sharedlib_only = op.sharedlib_only
               /\ log[i].model_only = op.model_only

\* a completed sharedlib-only build of a test that needs two builds of the model only
C10_Witness ==
    /\ op.name = "build"
    /\ ret = "None"
    /\ op.sharedlib_only
    /\ ~op.model_only
    /\ ~two_builds_for_sharedlib
    /\ two_builds_for_model
    /\ Cardinality(CallsOf("SystemTestsCommon.build")) = 1

\* C11: in every build() call that completes, _pre_build is called exactly once: after
\* the saved PE files of both runs exist (when the runs have different PE settings) and
\* before the first call of SystemTestsCommon.build, be there one build or two.
C11_PreBuildOnce ==
    (op.name = "build" /\ ret = "None") =>
        /\ Cardinality(CallsOf("_pre_build")) = 1
        /\ \A p \in CallsOf("_pre_build") :
               /\ \A i \in CallsOf("save_xml_file") \cup CallsOf("flush") \cup AdjustHooks_Calls :
                      i < p
               /\ \A i \in CallsOf("SystemTestsCommon.build") : p < i
        /\ CallsOf("SystemTestsCommon.build") # {}
        /\ runs_have_different_pe_settings =>
               /\ <<"env_mach_pes", run_one_suffix>> \in snaps
               /\ <<"env_mach_pes", run_two_suffix>> \in snaps

\* a completed first build() of a test with two PE layouts that made two builds
C11_Witness ==
    /\ op.name = "build"
    /\ ret = "None"
    /\ Cardinality(CallsOf("save_xml_file")) = 2
    /\ Cardinality(CallsOf("SystemTestsCommon.build")) = 2
    /\ Cardinality(CallsOf("_pre_build")) = 1

\* the suffix whose PE file the hook adjusts
AdjustedSuffix(hook) ==
    IF hook = "_adjust_pes_for_run_one" THEN run_one_suffix ELSE run_two_suffix

\* the call at position i of calls is hook, and it returned
HookRan(calls, i, hook) == calls[i].method = hook /\ calls[i].ret # "raise"

\* the call at position i of calls saves the PE file under suffix
SavesPes(calls, i, suffix) ==
    /\ calls[i].method = "save_xml_file"
    /\ calls[i].xml_file = "env_mach_pes"
    /\ calls[i].suffix = suffix

\* C12, as claimed: over any sequence of build() calls, killed ones included, an
\* _adjust_pes_for_run_* hook runs only where no PE file is saved under its suffix,
\* each run of it is followed by flush and then by the save of that file, and it
\* runs at most once.
\* (Violated: a build() killed between the hook and the save leaves no saved file,
\* and the next build() runs the hook again.)
C12_AdjustOncePerSuffix ==
    [][op'.name = "build" =>
          \A hook \in AdjustHooks : \A i \in 1..Len(log') :
              HookRan(log', i, hook) =>
                  /\ <<"env_mach_pes", AdjustedSuffix(hook)>> \notin snaps
                  /\ \A j \in 1..(i - 1) : ~SavesPes(log', j, AdjustedSuffix(hook))
                  /\ i + 2 <= Len(log')
                  /\ log'[i + 1].method = "flush"
                  /\ SavesPes(log', i + 2, AdjustedSuffix(hook))
                  /\ hook \notin adjusted]_vars

\* C12, amended: the hook runs only where no PE file is saved under its suffix, and at
\* most once in a build() call; unless the call is killed before the save, the hook
\* is followed at once by flush and then by the save of that file.  So once the file
\* is saved the hook never runs again.
C12_AdjustOnlyWithoutSavedFile ==
    [][op'.name = "build" =>
          \A hook \in AdjustHooks : \A i \in 1..Len(log') :
              HookRan(log', i, hook) =>
                  /\ <<"env_mach_pes", AdjustedSuffix(hook)>> \notin snaps
                  /\ \A j \in 1..(i - 1) : ~SavesPes(log', j, AdjustedSuffix(hook))
                  /\ \A j \in 1..Len(log') : HookRan(log', j, hook) => j = i
                  /\ (ret' # "killed" \/ i + 2 <= Len(log')) =>
                         /\ i + 2 <= Len(log')
                         /\ log'[i + 1].method = "flush"
                         /\ SavesPes(log', i + 2, AdjustedSuffix(hook))
                         /\ <<"env_mach_pes", AdjustedSuffix(hook)>> \in snaps']_vars

\* a completed build() of a test that overrides every hook, in which only
\* _adjust_pes_for_run_two ran: an earlier build() was killed after run one's PE file
\* was saved
C12_Witness ==
    /\ op.name = "build"
    /\ ret = "None"
    /\ hooks = OptionalHooks
    /\ CallsOf("_adjust_pes_for_run_one") = {}
    /\ CallsOf("_adjust_pes_for_run_two") # {}
    /\ "_adjust_pes_for_run_one" \in adjusted

\* the setup hook of the phase that runs with suffix
PhaseSetup(suffix) ==
    IF suffix = run_one_suffix THEN "_run_one_setup" ELSE "_run_two_setup"

\* the methods called, in order
Methods == [i \in 1..Len(log) |-> log[i].method]

StagingMethods == {"_stage_saved_pes_file", "_stage_saved_build_files"}

\* C13: with two_builds_for_sharedlib, two_builds_for_model and
\* runs_have_different_pe_settings all false, a run() in which everything passes calls
\* exactly: common setup, run-one setup, _run(run one suffix), common setup, run-two
\* setup, _run(run two suffix), _component_compare_test(run one suffix, run two
\* suffix); nothing is staged or reloaded.
C13_OneBuildCallSequence ==
    (/\ op.name = "run"
     /\ ret = "True"
     /\ ~two_builds_for_sharedlib
     /\ ~two_builds_for_model
     /\ ~runs_have_different_pe_settings) =>
        /\ Methods = <<"_run_common_setup", "_run_one_setup", "_run",
                       "_run_common_setup", "_run_two_setup", "_run",
                       "_component_compare_test">>
        /\ log[3].suffix = run_one_suffix
        /\ log[6].suffix = run_two_suffix
        /\ log[7].suffix = run_one_suffix
        /\ log[7].suffix2 = run_two_suffix

C13_Witness ==
    /\ op.name = "run"
    /\ ret = "True"
    /\ ~two_builds_for_sharedlib
    /\ ~two_builds_for_model
    /\ ~runs_have_different_pe_settings
    /\ Len(log) = 7

\* C14: when the test has two executables and the runs do not differ in PE settings,
\* each _run(suffix) of run() comes right after one reload with modified_pes = False,
\* which comes right after _stage_saved_build_files(suffix), which comes right after
\* that phase's setup hook; no PE file is staged and there is one reload per _run.
C14_TwoBuildsStaging ==
    (/\ op.name = "run"
     /\ two_builds_for_sharedlib \/ two_builds_for_model
     /\ ~runs_have_different_pe_settings) =>
        /\ \A r \in CallsOf("_run") :
               /\ r > 3
               /\ log[r - 1].method = "_load_staged_xml_files"
               /\ log[r - 1].modified_pes = FALSE
               /\ log[r - 2].method = "_stage_saved_build_files"
               /\ log[r - 2].suffix = log[r].suffix
               /\ log[r - 3].method = PhaseSetup(log[r].suffix)
        /\ CallsOf("_stage_saved_pes_file") = {}
        /\ Cardinality(CallsOf("_load_staged_xml_files")) = Cardinality(CallsOf("_run"))
        /\ Cardinality(CallsOf("_stage_saved_build_files")) = Cardinality(CallsOf("_run"))

C14_Witness ==
    /\ op.name = "run"
    /\ ret = "True"
    /\ two_builds_for_model
    /\ ~two_builds_for_sharedlib
    /\ ~runs_have_different_pe_settings
    /\ Cardinality(CallsOf("_stage_saved_build_files")) = 2

\* C15: when the runs differ in PE settings, each _run(suffix) of run() comes right
\* after one reload with modified_pes = True; before the reload come, from the phase's
\* setup hook on, _stage_saved_pes_file(suffix) and then, if the test has two
\* executables, _stage_saved_build_files(suffix).  In every configuration each reload
\* passes modified_pes = runs_have_different_pe_settings, comes right before a _run,
\* and a _run is preceded by a reload exactly if something was staged for it.
C15_DifferentPesStaging ==
    op.name = "run" =>
        /\ runs_have_different_pe_settings =>
               \A r \in CallsOf("_run") :
                   LET n == IF _has_two_executables THEN 1 ELSE 0
                   IN /\ r > 3 + n
                      /\ log[r - 1].method = "_load_staged_xml_files"
                      /\ log[r - 1].modified_pes = TRUE
                      /\ _has_two_executables =>
                             /\ log[r - 2].method = "_stage_saved_build_files"
                             /\ log[r - 2].suffix = log[r].suffix
                      /\ log[r - 2 - n].method = "_stage_saved_pes_file"
                      /\ log[r - 2 - n].suffix = log[r].suffix
                      /\ log[r - 3 - n].method = PhaseSetup(log[r].suffix)
        /\ \A i \in CallsOf("_load_staged_xml_files") :
               /\ log[i].modified_pes = runs_have_different_pe_settings
               /\ i + 1 \in CallsOf("_run")
        /\ \A r \in CallsOf("_run") :
               /\ r > 2
               /\ log[r - 1].method = "_load_staged_xml_files"
                      <=> log[r - 2].method \in StagingMethods
               /\ log[r - 1].method \notin StagingMethods
        /\ Cardinality(CallsOf("_load_staged_xml_files")) <= Cardinality(CallsOf("_run"))

C15_Witness ==
    /\ op.name = "run"
    /\ ret = "True"
    /\ runs_have_different_pe_settings
    /\ _has_two_executables
    /\ Cardinality(CallsOf("_stage_saved_pes_file")) = 2
    /\ Cardinality(CallsOf("_load_staged_xml_files")) = 2

\* the position of the last _run before position r of log, 0 if there is none
PreviousRun(r) ==
    IF \E p \in CallsOf("_run") : p < r
    THEN CHOOSE p \in CallsOf("_run") :
             p < r /\ \A q \in CallsOf("_run") : q < r => q <= p
    ELSE 0

\* C16: in run(), each run-one or run-two setup hook comes right after a call of the
\* common setup hook, and the two come before every staging, reload and _run of
\* their phase; so the common setup is called once per phase started: twice if run
\* one passes, once if it fails.
C16_CommonSetupBeforeEachPhase ==
    op.name = "run" =>
        /\ \A i \in CallsOf("_run_one_setup") \cup CallsOf("_run_two_setup") :
               i > 1 /\ log[i - 1].method = "_run_common_setup"
        /\ \A r \in CallsOf("_run") :
               LET p == PreviousRun(r)
               IN /\ r > p + 2
                  /\ log[p + 1].method = "_run_common_setup"
                  /\ log[p + 2].method = PhaseSetup(log[r].suffix)
                  /\ \A i \in (p + 3)..(r - 1) :
                         log[i].method \in StagingMethods \cup {"_load_staged_xml_files"}
        /\ Cardinality(CallsOf("_run_common_setup")) = Cardinality(CallsOf("_run"))
        /\ Cardinality(CallsOf("_run_common_setup"))
               = (IF status_run1 = "PASS" THEN 2 ELSE 1)

C16_Witness ==
    /\ op.name = "run"
    /\ status_run1 = "PASS"
    /\ status_run2 = "FAIL"
    /\ runs_have_different_pe_settings
    /\ Cardinality(CallsOf("_run_common_setup")) = 2

\* the call at position i of calls creates a saved file
Creates(calls, i) ==
    \/ calls[i].method \in {"save_xml_file", "_save_build_files"}
    \/ calls[i].method = "restore_or_save_xml_file" /\ calls[i].ret = "False"

\* the saved file that call is about, as <<kind, suffix>>
SavedFile(call) ==
    <<IF call.method = "_save_build_files" THEN "env_build" ELSE call.xml_file, call.suffix>>

\* C17: over any sequence of build() calls, a saved file of a given kind
\* (env_mach_pes or env_build) and suffix ('original', run one's, run two's) is
\* created at most once: no build() creates a file that exists before the call or
\* that the same call has created already.
\* (Violated: every build() that does two builds calls _save_build_files for both
\* suffixes, whether or not an earlier build() has saved them.)
C17_SnapshotCreatedOnce ==
    [][op'.name = "build" =>
          \A i \in 1..Len(log') :
              Creates(log', i) =>
                  /\ SavedFile(log'[i]) \notin snaps
                  /\ \A j \in 1..(i - 1) :
                         ~(Creates(log', j) /\ SavedFile(log'[j]) = SavedFile(log'[i]))]_vars

\* C18: the statuses are NOT RUN after construction; a status leaves NOT RUN only in
\* a run() call that executes its step (_run with run one's suffix, _run with run
\* two's suffix, _component_compare_test); build() and the three accessors leave
\* the three statuses unchanged; and an accessor whose status is NOT RUN returns
\* NOT RUN.
C18_NotRunUntilExecuted ==
    [][/\ op'.name = "__init__" => Statuses' = <<"NOT RUN", "NOT RUN", "NOT RUN">>
       /\ op'.name \in {"build", "get_run_one_status", "get_run_two_status",
                        "get_compare_status"} => Statuses' = Statuses
       /\ (status_run1 = "NOT RUN" /\ status_run1' # "NOT RUN") =>
              /\ op'.name = "run"
              /\ \E i \in 1..Len(log') :
                     log'[i].method = "_run" /\ log'[i].suffix = run_one_suffix
       /\ (status_run2 = "NOT RUN" /\ status_run2' # "NOT RUN") =>
              /\ op'.name = "run"
              /\ \E i \in 1..Len(log') :
                     log'[i].method = "_run" /\ log'[i].suffix = run_two_suffix
       /\ (status_compare = "NOT RUN" /\ status_compare' # "NOT RUN") =>
              /\ op'.name = "run"
              /\ \E i \in 1..Len(log') : log'[i].method = "_component_compare_test"
       /\ (op'.name = "get_run_one_status" /\ status_run1 = "NOT RUN") => ret' = "NOT RUN"
       /\ (op'.name = "get_run_two_status" /\ status_run2 = "NOT RUN") => ret' = "NOT RUN"
       /\ (op'.name = "get_compare_status" /\ status_compare = "NOT RUN") =>
              ret' = "NOT RUN"]_vars

\* get_compare_status returns NOT RUN after a build() and before any run()
C18_Witness ==
    /\ op.name = "get_compare_status"
    /\ ret = "NOT RUN"
    /\ snaps # {}
    /\ nrun = 0

\* the steps of build() that change the configuration of the case
ConfigChanging ==
    AdjustHooks \cup {"_build_one_setup", "_build_two_setup", "SystemTestsCommon.build"}

\* the call at position i of log saves a file under the suffix of run one or run two
SavesForARun(i) ==
    /\ log[i].method \in {"save_xml_file", "_save_build_files"}
    /\ log[i].suffix \in {run_one_suffix, run_two_suffix}

\* C19: in build(), every save of env_mach_pes or of the build files under the suffix
\* of run one or run two is preceded by a case.flush() with no configuration-changing
\* step (adjust hook, build setup hook, underlying build) between the flush and the
\* save.
\* (Violated: _do_two_builds calls _save_build_files right after the underlying build,
\* with no flush.)
C19_FlushBeforeSnapshot ==
    op.name = "build" =>
        \A i \in 1..Len(log) :
            SavesForARun(i) =>
                \E f \in CallsOf("flush") :
                    /\ f < i
                    /\ \A j \in (f + 1)..(i - 1) : log[j].method \notin ConfigChanging

\* C20: in build() and in run(), every call that stages a saved PE file or saved
\* build files is followed by _load_staged_xml_files, with nothing but staging calls
\* between the two: no hook, underlying build, _run or _component_compare_test.
C20_ReloadAfterStaging ==
    op.name \in {"build", "run"} =>
        \A i \in 1..Len(log) :
            log[i].method \in StagingMethods =>
                \E r \in CallsOf("_load_staged_xml_files") :
                    /\ i < r
                    /\ \A j \in (i + 1)..(r - 1) : log[j].method \in StagingMethods

\* a build() that did two builds, each after staging the PE file of its run
C20_Witness ==
    /\ op.name = "build"
    /\ ret = "None"
    /\ Cardinality(CallsOf("_stage_saved_pes_file")) = 2
    /\ Cardinality(CallsOf("_load_staged_xml_files")) = 2
    /\ Cardinality(CallsOf("SystemTestsCommon.build")) = 2

\* the positions of calls where the original xml_file is restored or saved
RestoreCalls(calls, xml_file) ==
    {i \in 1..Len(calls) : /\ calls[i].method = "restore_or_save_xml_file"
                           /\ calls[i].xml_file = xml_file
                           /\ calls[i].suffix = ORIGINAL_SUFFIX}

\* the positions of calls where case.read_xml() is called
ReadXmlCalls(calls) == {i \in 1..Len(calls) : calls[i].method = "read_xml"}

\* C21: in a build() call, case.read_xml() is called, once and right after the
\* restore-or-save calls, if and only if one of them restored a saved original; in a
\* build() that starts with no saved original, where the current files are saved as
\* the originals instead, read_xml is not called.
C21_ReadXmlIffRestored ==
    [][op'.name = "build" =>
          LET restores == RestoreCalls(log', "env_mach_pes") \cup RestoreCalls(log', "env_build")
              restored == {i \in restores : log'[i].ret = "True"}
          IN /\ ReadXmlCalls(log') # {} <=> restored # {}
             /\ \A i \in ReadXmlCalls(log') :
                    /\ ReadXmlCalls(log') = {i}
                    /\ restores = 1..(i - 1)
             /\ \A i \in restores :
                    log'[i].ret = "True" <=> <<log'[i].xml_file, ORIGINAL_SUFFIX>> \in snaps
             /\ (\A kind \in {"env_mach_pes", "env_build"} :
                     <<kind, ORIGINAL_SUFFIX>> \notin snaps) => ReadXmlCalls(log') = {}]_vars

\* a build() of a test with one PE layout that restored env_build and read the xml files
C21_Witness ==
    /\ op.name = "build"
    /\ ~runs_have_different_pe_settings
    /\ \E i \in RestoreCalls(log, "env_build") : log[i].ret = "True"
    /\ ReadXmlCalls(log) # {}

\* C22, as claimed: a build() call restores or saves the original env_mach_pes exactly
\* when runs_have_different_pe_settings, and the original env_build exactly when
\* that call needs two builds.
\* (Violated: the code asks _has_two_executables(), not _needs_two_builds(...) of the
\* call; a sharedlib-only build of a test that needs two model builds restores or
\* saves the original env_build.)
C22_RestoreFollowsRequestedScope ==
    op.name = "build" =>
        /\ RestoreCalls(log, "env_mach_pes") # {} <=> runs_have_different_pe_settings
        /\ RestoreCalls(log, "env_build") # {}
               <=> _needs_two_builds(op.sharedlib_only, op.model_only).val

\* C22, amended: a build() call restores or saves the original env_mach_pes exactly
\* when runs_have_different_pe_settings, and the original env_build exactly when the
\* test has two executables (two_builds_for_sharedlib or two_builds_for_model),
\* whatever the scope of the call; each at most once.
C22_RestoreFollowsTestFlags ==
    op.name = "build" =>
        /\ RestoreCalls(log, "env_mach_pes") # {} <=> runs_have_different_pe_settings
        /\ RestoreCalls(log, "env_build") # {}
               <=> (two_builds_for_sharedlib \/ two_builds_for_model)
        /\ Cardinality(RestoreCalls(log, "env_mach_pes")) <= 1
        /\ Cardinality(RestoreCalls(log, "env_build")) <= 1

\* a sharedlib-only build, which needs one build, of a test that needs two model builds
C22_Witness ==
    /\ op.name = "build"
    /\ op.sharedlib_only
    /\ ~op.model_only
    /\ two_builds_for_model
    /\ ~two_builds_for_sharedlib
    /\ RestoreCalls(log, "env_build") # {}
    /\ Cardinality(CallsOf("SystemTestsCommon.build")) = 1

\* the position of the _pre_build call in log, 0 if it was not reached
PreBuildAt ==
    IF CallsOf("_pre_build") = {} THEN 0 ELSE CHOOSE p \in CallsOf("_pre_build") : TRUE

\* what is compared of the call at position i of log
Signature(i) == <<log[i].method, log[i].suffix, log[i].modified_pes>>

\* the last build() call needed two builds
NeededTwoBuilds == _needs_two_builds(op.sharedlib_only, op.model_only).val

\* C23: a build() call that does not need two builds makes, after _pre_build, exactly:
\* _stage_saved_pes_file(run one suffix), _load_staged_xml_files(modified_pes=True)
\* and one underlying build if runs_have_different_pe_settings, else the one
\* underlying build alone; the PE file of run two is not staged, neither build setup
\* hook is called and no build files are saved.
C23_SingleBuild ==
    (op.name = "build" /\ PreBuildAt > 0 /\ ~NeededTwoBuilds) =>
        LET p == PreBuildAt
            b == IF runs_have_different_pe_settings THEN p + 3 ELSE p + 1
        IN /\ Len(log) = b
           /\ log[b].method = "SystemTestsCommon.build"
           /\ log[b].sharedlib_only = op.sharedlib_only
           /\ log[b].model_only = op.model_only
           /\ runs_have_different_pe_settings =>
                  /\ Signature(p + 1) = <<"_stage_saved_pes_file", run_one_suffix, FALSE>>
                  /\ Signature(p + 2) = <<"_load_staged_xml_files", <<>>, TRUE>>
           /\ CallsOf("SystemTestsCommon.build") = {b}
           /\ CallsOf("_build_one_setup") \cup CallsOf("_build_two_setup") = {}
           /\ CallsOf("_save_build_files") = {}
           /\ \A i \in CallsOf("_stage_saved_pes_file") : i = p + 1
           /\ \A i \in CallsOf("_load_staged_xml_files") : i = p + 2

\* a model-only single build of a test with two PE layouts and two sharedlib builds
C23_Witness ==
    /\ op.name = "build"
    /\ ret = "None"
    /\ op.model_only
    /\ two_builds_for_sharedlib
    /\ runs_have_different_pe_settings
    /\ Cardinality(CallsOf("_stage_saved_pes_file")) = 1
    /\ Cardinality(CallsOf("SystemTestsCommon.build")) = 1

\* the calls of one pass of _do_two_builds
BuildPass(setup, suffix) ==
    (IF runs_have_different_pe_settings
     THEN << <<"_stage_saved_pes_file", suffix, FALSE>>,
             <<"_load_staged_xml_files", <<>>, TRUE>> >>
     ELSE <<>>)
    \o << <<setup, <<>>, FALSE>>,
          <<"SystemTestsCommon.build", <<>>, FALSE>>,
          <<"_save_build_files", suffix, FALSE>> >>

\* C24: a build() call that needs two builds makes, after _pre_build, the calls of
\* pass one and then those of pass two, each pass being: if
\* runs_have_different_pe_settings, _stage_saved_pes_file(suffix of the pass) and
\* _load_staged_xml_files(modified_pes=True); the build setup hook of the pass; the
\* underlying build with the scope of the call; _save_build_files(suffix of the pass).
\* A call that fails stops within this sequence, at a call that raised.
C24_TwoBuildPasses ==
    (op.name = "build" /\ PreBuildAt > 0 /\ NeededTwoBuilds) =>
        LET p == PreBuildAt
            expected == BuildPass("_build_one_setup", run_one_suffix)
                        \o BuildPass("_build_two_setup", run_two_suffix)
        IN /\ Len(log) - p <= Len(expected)
           /\ Len(log) > p
           /\ \A i \in 1..(Len(log) - p) : Signature(p + i) = expected[i]
           /\ \A i \in CallsOf("SystemTestsCommon.build") :
                  /\ log[i].sharedlib_only = op.sharedlib_only
                  /\ log[i].model_only = op.model_only
           /\ ret = "None" <=> Len(log) - p = Len(expected)
           /\ ret # "None" => log[Len(log)].ret = "raise"

C24_Witness ==
    /\ op.name = "build"
    /\ ret = "None"
    /\ runs_have_different_pe_settings
    /\ op.sharedlib_only
    /\ Cardinality(CallsOf("_save_build_files")) = 2
    /\ Cardinality(CallsOf("_stage_saved_pes_file")) = 2

BuildSetupHooks == {"_build_one_setup", "_build_two_setup"}

\* the positions of log that hold a call that raised
Raised == {i \in 1..Len(log) : log[i].ret = "raise"}

\* C25: build() raises NotImplementedError exactly when it calls a hook that the test
\* does not override, and that call is the last of build(): after a missing
\* _adjust_pes_for_run_* hook there is no _pre_build and no underlying build; after a
\* missing _build_one_setup there is no underlying build and no _save_build_files.
\* The adjust hooks are called only if runs_have_different_pe_settings and the build
\* setup hooks only if the call needs two builds, so a build() without the flag does
\* not fail for lacking them; with the flag, a missing adjust hook or a missing
\* _build_one_setup makes build() fail.
C25_MissingHookStopsBuild ==
    op.name = "build" =>
        /\ ret = "NotImplementedError"
               <=> (Len(log) > 0 /\ log[Len(log)].method \in OptionalHooks
                                /\ log[Len(log)].ret = "raise")
        /\ \A i \in 1..Len(log) :
               log[i].method \in OptionalHooks =>
                   /\ log[i].ret = "raise" <=> log[i].method \notin hooks
                   /\ log[i].ret = "raise" => i = Len(log)
        /\ (\E i \in Raised : log[i].method \in AdjustHooks) =>
               CallsOf("_pre_build") \cup CallsOf("SystemTestsCommon.build") = {}
        /\ (\E i \in Raised : log[i].method = "_build_one_setup") =>
               CallsOf("SystemTestsCommon.build") \cup CallsOf("_save_build_files") = {}
        /\ ~runs_have_different_pe_settings => AdjustHooks_Calls = {}
        /\ ~NeededTwoBuilds =>
               CallsOf("_build_one_setup") \cup CallsOf("_build_two_setup") = {}
        /\ (~runs_have_different_pe_settings /\ ~NeededTwoBuilds) =>
               ret # "NotImplementedError"
        /\ (runs_have_different_pe_settings /\ AdjustHooks \ hooks # {}) =>
               ret = "NotImplementedError"
        /\ (NeededTwoBuilds /\ "_build_one_setup" \notin hooks) =>
               ret = "NotImplementedError"

\* a build() that needs two builds and stops at the missing _build_one_setup, after
\* the PE files were created and _pre_build was called
C25_Witness ==
    /\ op.name = "build"
    /\ ret = "NotImplementedError"
    /\ runs_have_different_pe_settings
    /\ Len(log) > 0
    /\ log[Len(log)].method = "_build_one_setup"
    /\ CallsOf("_pre_build") # {}

\* the positions of calls that hold an underlying build
BuildCalls(calls) == {i \in 1..Len(calls) : calls[i].method = "SystemTestsCommon.build"}

\* C26: build() raises the error of the underlying build exactly when an underlying
\* build fails, and that build is the last call of build(): if it is the first build
\* of a call that needs two builds there is no _save_build_files, no
\* _build_two_setup and no second build; if it is the second, only the build files
\* of run one were saved.  The three statuses are unchanged.
C26_BuildFailureStopsBuild ==
    [][op'.name = "build" =>
          LET failed == {i \in BuildCalls(log') : log'[i].ret = "raise"}
              saves == {i \in 1..Len(log') : log'[i].method = "_save_build_files"}
          IN /\ ret' = "BuildError" <=> failed # {}
             /\ \A i \in failed : i = Len(log')
             /\ (failed # {} /\ Cardinality(BuildCalls(log')) = 1) =>
                    /\ saves = {}
                    /\ \A i \in 1..Len(log') : log'[i].method # "_build_two_setup"
             /\ (failed # {} /\ Cardinality(BuildCalls(log')) = 2) =>
                    \A i \in saves : log'[i].suffix = run_one_suffix
             /\ Statuses' = Statuses]_vars

\* a build() that needs two builds and whose first build failed
C26_Witness ==
    /\ op.name = "build"
    /\ ret = "BuildError"
    /\ NeededTwoBuilds
    /\ CallsOf("_build_one_setup") # {}
    /\ Cardinality(CallsOf("SystemTestsCommon.build")) = 1

\* the positions before r of log that hold a call of method
CallsBefore(method, r) == {i \in CallsOf(method) : i < r}

\* the last position of a non-empty set of positions
Last(positions) == CHOOSE i \in positions : \A j \in positions : j <= i

\* C28: when run() calls _run(suffix), the last PE file staged (if
\* runs_have_different_pe_settings) and the last build files staged (if the test has
\* two executables) are those of suffix, both staged in this run() call, and
\* _load_staged_xml_files was called after the last staging call and before _run.
C28_StagedForThePhaseRun ==
    op.name = "run" =>
        \A r \in CallsOf("_run") :
            LET pes == CallsBefore("_stage_saved_pes_file", r)
                bld == CallsBefore("_stage_saved_build_files", r)
            IN /\ runs_have_different_pe_settings =>
                      pes # {} /\ log[Last(pes)].suffix = log[r].suffix
               /\ _has_two_executables =>
                      bld # {} /\ log[Last(bld)].suffix = log[r].suffix
               /\ pes \cup bld # {} =>
                      \E l \in CallsBefore("_load_staged_xml_files", r) :
                          Last(pes \cup bld) < l
               /\ ~runs_have_different_pe_settings => pes = {}
               /\ ~_has_two_executables => bld = {}

C28_Witness ==
    /\ op.name = "run"
    /\ ret = "True"
    /\ runs_have_different_pe_settings
    /\ two_builds_for_model
    /\ Cardinality(CallsOf("_run")) = 2
    /\ Cardinality(CallsOf("_stage_saved_build_files")) = 2

\* the saved files that run() stages, as <<kind, suffix>>
Required ==
    (IF runs_have_different_pe_settings
     THEN {<<"env_mach_pes", run_one_suffix>>, <<"env_mach_pes", run_two_suffix>>}
     ELSE {})
    \cup (IF two_builds_for_sharedlib \/ two_builds_for_model
          THEN {<<"env_build", run_one_suffix>>, <<"env_build", run_two_suffix>>}
          ELSE {})

\* the saved files that calls stage
Staged(calls) ==
    {<<IF calls[i].method = "_stage_saved_pes_file" THEN "env_mach_pes" ELSE "env_build",
       calls[i].suffix>> : i \in {j \in 1..Len(calls) : calls[j].method \in StagingMethods}}

\* C29: once a build() with no scope restriction has completed, or a sharedlib-only
\* build() and then a model-only build() have, every file that run() stages is saved:
\* env_mach_pes under both suffixes if runs_have_different_pe_settings, the build files
\* under both suffixes if the test has two executables.  Saved files are never
\* removed, and a run() that follows stages nothing that is not saved.
C29_StagedFilesAreSaved ==
    [][/\ (/\ op'.name = "build"
           /\ ret' = "None"
           /\ \/ ~op'.sharedlib_only /\ ~op'.model_only
              \/ /\ op'.model_only /\ ~op'.sharedlib_only
                 /\ op.name = "build" /\ ret = "None"
                 /\ op.sharedlib_only /\ ~op.model_only) => Required \subseteq snaps'
       /\ snaps \subseteq snaps'
       /\ op'.name = "run" => Staged(log') \subseteq Required
       /\ (op'.name = "run" /\ Required \subseteq snaps) => Staged(log') \subseteq snaps']_vars

\* a run() of both phases, after the build, of a test with two PE layouts and two
\* executables
C29_Witness ==
    /\ op.name = "run"
    /\ runs_have_different_pe_settings
    /\ two_builds_for_sharedlib
    /\ Required \subseteq snaps
    /\ Cardinality(Staged(log)) = 4

\* C27, as claimed: whenever the PE file of run two is saved, it holds the layout that
\* _adjust_pes_for_run_two makes of the original layout, whether build() ran through
\* or was killed after saving the PE file of run one and was made again.
\* (Violated: a build() that runs through calls _adjust_pes_for_run_two on the case
\* that _adjust_pes_for_run_one has just changed.)
C27_RunTwoLayoutFromOriginal ==
    HasSavedPes(env_mach_pes, run_two_suffix) =>
        SavedPes(env_mach_pes, run_two_suffix) = <<"_adjust_pes_for_run_two">>

\* the saved PE files are those recorded in snaps
PesFilesAreSnaps ==
    \A suffix \in {ORIGINAL_SUFFIX, run_one_suffix, run_two_suffix} :
        HasSavedPes(env_mach_pes, suffix) <=> <<"env_mach_pes", suffix>> \in snaps

\* the rank of a step in the order of run()
Rank(step) ==
    CASE step = "Idle" -> 0
      [] step = "Run1Setup" -> 1
      [] step = "Run1Exec" -> 2
      [] step = "Run2Setup" -> 3
      [] step = "Run2Exec" -> 4
      [] step = "Compare" -> 5
      [] step = "Done" -> 6

\* C30: every run() call reaches Done and returns a boolean, after at most two _run
\* calls and at most one comparison; within a call the steps Run1Setup, Run1Exec,
\* Run2Setup, Run2Exec, Compare are made in that order, none twice; a failed step
\* ends the call, and only with its status set to FAIL; the step-by-step run() ends
\* with the calls and the value of run() made at once.
C30_RunTerminates ==
    /\ [](pc \notin {"Idle", "Done"} => <>(pc = "Done"))
    /\ [](op.name = "run" =>
             /\ Cardinality(CallsOf("_run")) <= 2
             /\ Cardinality(CallsOf("_component_compare_test")) <= 1
             /\ pc = "Done" =>
                    /\ ret \in {"True", "False"}
                    /\ \E one \in BOOLEAN, two \in BOOLEAN, compare \in BOOLEAN :
                           /\ log = run_outcome(one, two, compare).log
                           /\ ret = run_outcome(one, two, compare).ret)
    /\ [][/\ pc' # pc =>
              \/ pc \in {"Idle", "Done"} /\ pc' = "Run1Setup"
              \/ pc \notin {"Idle", "Done"} /\ Rank(pc') > Rank(pc)
          /\ (pc = "Run1Exec" /\ pc' = "Done") => status_run1' = "FAIL" /\ ret' = "False"
          /\ (pc = "Run2Exec" /\ pc' = "Done") => status_run2' = "FAIL" /\ ret' = "False"
          /\ (pc = "Compare" /\ ret' = "False") => status_compare' = "FAIL"
          /\ (pc = "Run1Exec" /\ pc' # "Done") => pc' = "Run2Setup" /\ status_run1' = "PASS"
          /\ (pc = "Run2Exec" /\ pc' # "Done") => pc' = "Compare" /\ status_run2' = "PASS"
          /\ pc = "Run1Setup" => pc' = "Run1Exec"
          /\ pc = "Run2Setup" => pc' = "Run2Exec"
          /\ pc = "Compare" => pc' = "Done"]_vars

\* a run() that made every step and returned True
C30_Witness ==
    /\ pc = "Done"
    /\ ret = "True"
    /\ Cardinality(CallsOf("_run")) = 2
    /\ CompareInvoked

====
